---------------------------- MODULE Spec2Model ----------------------------
(***************************************************************************)
(* Model of src/simd_vectorized.c: the sliding-window box filter           *)
(* box1DFloatC, the separable 2D passes boxAlongRowsFloatC and             *)
(* boxAlongColsFloatC, and the iterated driver jaroszFilterFloat.          *)
(*                                                                         *)
(* C `float` values are modelled as IEEE-754 binary32 numbers: a finite    *)
(* value is m * 2^e with |m| < 2^24, and every arithmetic operator rounds  *)
(* its exact result to 24 significant bits, ties to even, as the hardware  *)
(* does.  One activation of box1DFloatC is a record holding its arguments  *)
(* and locals under their source names; one action is one loop iteration.  *)
(***************************************************************************)
EXTENDS Integers, Sequences, FiniteSets, TLC

VARIABLES
  entry,   \* which function the caller invoked: "box1D" or "jarosz"
  fr,      \* the activation of box1DFloatC (entry = "box1D")
  jz       \* the activation of jaroszFilterFloat (entry = "jarosz")

vars == <<entry, fr, jz>>

(***************************************************************************)
(* Bounds of the model.                                                    *)
(***************************************************************************)
\* Longest 1D sequence (the unrolled block needs length - W >= 9).
MaxLen == 12
\* A direct box1DFloatC call has stride 1 or MaxStride.
MaxStride == 2
\* Background level of an input: 0..MaxLevel.
MaxLevel == 1
\* Height of the impulse added on the background: 0 or MaxAmp.
MaxAmp == 2
\* Largest numRows and numCols of a jaroszFilterFloat call.
MaxDim == 3
\* Largest nreps.
MaxReps == 2
\* Longest constant 1D sequence (3 * 7 is the first product that the multiply
\* by the reciprocal misses, and the block needs length >= 16 to run on it).
MaxConstLen == 16
\* Constant inputs hold 1..MaxConst.
MaxConst == 3
\* Largest numRows and numCols of a call on a constant matrix.
MaxConstDim == 4

(***************************************************************************)
(* binary32 arithmetic.                                                    *)
(***************************************************************************)
Abs(n) == IF n < 0 THEN -n ELSE n
Sgn(n) == IF n < 0 THEN -1 ELSE IF n > 0 THEN 1 ELSE 0

\* A finite float m * 2^e, kept canonical: m odd, or m = 0 and e = 0.
F(m, e) == [c |-> "fin", m |-> m, e |-> e]
Inf(s) == [c |-> "inf", m |-> s, e |-> 0]
NaN == [c |-> "nan", m |-> 0, e |-> 0]

RECURSIVE Norm(_, _)
Norm(m, e) ==
  IF m = 0 THEN F(0, 0)
  ELSE IF m % 2 = 0 THEN Norm(m \div 2, e + 1)
  ELSE F(m, e)

\* The number of low bits an integer magnitude has beyond 24 significant bits.
RECURSIVE ExcessBits(_)
ExcessBits(a) == IF a < 2^24 THEN 0 ELSE 1 + ExcessBits(a \div 2)

\* n * 2^e rounded to 24 significant bits, round-to-nearest, ties-to-even.
RoundNE(n, e) ==
  LET a == Abs(n)
      k == ExcessBits(a)
      q == a \div 2^k
      r == a % 2^k
      up == k > 0 /\ (2 * r > 2^k \/ (2 * r = 2^k /\ q % 2 = 1))
  IN  Norm(Sgn(n) * (IF up THEN q + 1 ELSE q), e + k)

\* (float) n for an int n.
FromInt(n) == RoundNE(n, 0)

Zero == FromInt(0)
One == FromInt(1)

\* The mantissa scaled into [2^23, 2^24) and the exponent that goes with it.
RECURSIVE Up24(_, _)
Up24(m, e) == IF Abs(m) >= 2^23 THEN <<m, e>> ELSE Up24(2 * m, e - 1)

\* x + y of two finite non-zero floats, |x| the operand with the larger
\* exponent: three guard bits and a sticky bit, as an adder does it.
AddAligned(x, y) ==
  LET d == x[2] - y[2]
      ax == Abs(x[1]) * 8
      ay == Abs(y[1]) * 8
      sh == IF d > 27 THEN 0 ELSE ay \div 2^d
      st == IF d > 27 THEN 1 ELSE IF ay % 2^d = 0 THEN 0 ELSE 1
      yy == IF st = 1 /\ sh % 2 = 0 THEN sh + 1 ELSE sh
  IN  RoundNE(Sgn(x[1]) * ax + Sgn(y[1]) * yy, x[2] - 3)

FNeg(x) == [x EXCEPT !.m = -x.m]

FAdd(x, y) ==
  IF x.c = "nan" \/ y.c = "nan" THEN NaN
  ELSE IF x.c = "inf" /\ y.c = "inf" THEN (IF x.m = y.m THEN x ELSE NaN)
  ELSE IF x.c = "inf" THEN x
  ELSE IF y.c = "inf" THEN y
  ELSE IF x.m = 0 THEN y
  ELSE IF y.m = 0 THEN x
  ELSE LET ux == Up24(x.m, x.e)
           uy == Up24(y.m, y.e)
       IN  IF ux[2] >= uy[2] THEN AddAligned(ux, uy) ELSE AddAligned(uy, ux)

FSub(x, y) == FAdd(x, FNeg(y))

\* The exact product of two mantissas below 2^24, as <<high, low>> with
\* product = high * 2^24 + low and low < 2^24 (formed from 12-bit halves).
MulExact(a, b) ==
  LET a1 == a \div 2^12
      a0 == a % 2^12
      b1 == b \div 2^12
      b0 == b % 2^12
      mid == a1 * b0 + a0 * b1
      low == (mid % 2^12) * 2^12 + a0 * b0
  IN  <<a1 * b1 + mid \div 2^12 + low \div 2^24, low % 2^24>>

RECURSIVE BitLen(_)
BitLen(n) == IF n = 0 THEN 0 ELSE 1 + BitLen(n \div 2)

\* sign * (p[1] * 2^24 + p[2]) * 2^e rounded to 24 significant bits: the top
\* 27 bits and a sticky bit for the rest.
RoundWide(sign, p, e) ==
  IF p[1] = 0 THEN RoundNE(sign * p[2], e)
  ELSE LET s == 27 - BitLen(p[1])
       IN  IF s >= 24
             THEN RoundNE(sign * (p[1] * 2^s + p[2] * 2^(s - 24)), e + 24 - s)
             ELSE LET t == p[1] * 2^s + p[2] \div 2^(24 - s)
                      sticky == p[2] % 2^(24 - s) # 0
                  IN  RoundNE(sign * (IF sticky /\ t % 2 = 0 THEN t + 1 ELSE t),
                              e + 24 - s)

\* x * y; the exact product of the two mantissas is formed before rounding.
FMul(x, y) ==
  IF x.c = "nan" \/ y.c = "nan" THEN NaN
  ELSE IF x.c = "inf" \/ y.c = "inf"
       THEN (IF x.m = 0 \/ y.m = 0 THEN NaN ELSE Inf(Sgn(x.m) * Sgn(y.m)))
  ELSE RoundWide(Sgn(x.m) * Sgn(y.m), MulExact(Abs(x.m), Abs(y.m)), x.e + y.e)

\* The left shift that gives the quotient a / b at least 24 bits.
RECURSIVE DivShift(_, _)
DivShift(a, b) == IF a >= 2^24 * b THEN 0 ELSE 1 + DivShift(2 * a, b)

\* x / y: the quotient with one extra bit and a sticky bit, then rounded.
FDiv(x, y) ==
  IF x.c = "nan" \/ y.c = "nan" THEN NaN
  ELSE IF x.c = "inf"
       THEN (IF y.c = "inf" THEN NaN ELSE Inf(x.m * (IF y.m < 0 THEN -1 ELSE 1)))
  ELSE IF y.c = "inf" THEN F(0, 0)
  ELSE IF y.m = 0 THEN (IF x.m = 0 THEN NaN ELSE Inf(Sgn(x.m)))
  ELSE IF x.m = 0 THEN F(0, 0)
  ELSE LET a == Abs(x.m)
           b == Abs(y.m)
           k == DivShift(a, b)
           q == (a * 2^k) \div b
           s == IF (a * 2^k) % b = 0 THEN 0 ELSE 1
       IN  RoundNE(Sgn(x.m) * Sgn(y.m) * (2 * q + s), x.e - y.e - k - 1)

\* x > 0 as the C comparison evaluates it.
FPositive(x) == (x.c = "fin" \/ x.c = "inf") /\ x.m > 0

(***************************************************************************)
(* Buffers.  A C float array is a function from 0..n-1 to floats; a        *)
(* pointer such as &input[j] is the array together with the offset j.      *)
(***************************************************************************)
\* What an output cell holds before the filter writes it.
Stale == FromInt(-9)
\* What the cells between the samples of a strided sequence hold.
Gap == FromInt(-7)

\* invec[idx] and outVec[idx] = v.  An index outside the array is undefined
\* behaviour in C; box1DFloatC never produces one for 1 <= W <= length (the
\* access claim), so the branch taken there is immaterial.
Rd(buf, idx) == IF idx \in DOMAIN buf THEN buf[idx] ELSE Gap
Wr(buf, idx, v) == IF idx \in DOMAIN buf THEN [buf EXCEPT ![idx] = v] ELSE buf

(***************************************************************************)
(* box1DFloatC: the phase lengths.                                         *)
(***************************************************************************)
Unroll == 8

\* A variant: the half window rounded the other way for even W.
halfWindowSizeRoundedUp(W) == (W + 1) \div 2
halfWindowSize(W) == (W + 2) \div 2
phase1Nreps(W) == halfWindowSize(W) - 1
phase2Nreps(W) == W - halfWindowSize(W) + 1
\* A variant: one steady-state step too many.
phase3NrepsInclusive(L, W) == L - W + 1
phase3Nreps(L, W) == L - W
\* A variant: one phase-4 step too many.
phase4NrepsHalf(W) == halfWindowSize(W)
phase4Nreps(W) == halfWindowSize(W) - 1

\* The conditions of the five loops.
phase1Cond(f) == f.i < phase1Nreps(f.fullWindowSize)
phase2Cond(f) == f.i < phase2Nreps(f.fullWindowSize)
\* A variant: the block loop tested without the margin of 8.
blockCondNoMargin(f) == f.i < phase3Nreps(f.vectorLength, f.fullWindowSize)
blockCond(f) == f.i < phase3Nreps(f.vectorLength, f.fullWindowSize) - Unroll
singleCond(f) == f.i < phase3Nreps(f.vectorLength, f.fullWindowSize)
phase4Cond(f) == f.i < phase4Nreps(f.fullWindowSize)

(***************************************************************************)
(* box1DFloatC: the activation record and the loop bodies.                 *)
(* reads, writes and divs are history: the indices read; the writes in     *)
(* order, each with the index written, the loop that wrote it, the cursors *)
(* as that step leaves them, the running sum written and the window size   *)
(* that scaled it; and the values of currentWindowSize used as a divisor,  *)
(* each with the place that used it.                                       *)
(***************************************************************************)
\* invec[idx] and outVec[idx] = v through the two pointer arguments.
Load(f, idx) == Rd(f.invec, f.inBase + idx)
Store(f, idx, v) == Wr(f.outVec, f.outBase + idx, v)

\* The history entry of one write.
Written(idx, site, li, ri, sum, div) ==
  [idx |-> idx, site |-> site, li |-> li, ri |-> ri, sum |-> sum, div |-> div]

\* The state on entry to the function, before the first loop test.
box1DEntry(invec, inBase, outVec, outBase, vectorLength, stride, fullWindowSize) ==
  [invec |-> invec, inBase |-> inBase, outVec |-> outVec, outBase |-> outBase,
   vectorLength |-> vectorLength, stride |-> stride,
   fullWindowSize |-> fullWindowSize,
   li |-> 0, ri |-> 0, oi |-> 0, sum |-> Zero, currentWindowSize |-> Zero,
   denom |-> Zero, i |-> 0, pc |-> "phase1",
   reads |-> {}, writes |-> <<>>, divs |-> {}, blocks |-> 0, singles |-> 0]

\* Control leaves every loop whose condition is false; between phase 2 and
\* phase 3 it executes `int i = 0` and `float denom = 1 / currentWindowSize`.
RECURSIVE Settle(_)
Settle(f) ==
  IF f.pc = "phase1" /\ ~phase1Cond(f)
    THEN Settle([f EXCEPT !.pc = "phase2", !.i = 0])
  ELSE IF f.pc = "phase2" /\ ~phase2Cond(f)
    THEN Settle([f EXCEPT !.pc = "phase3", !.i = 0,
                          !.denom = FDiv(One, f.currentWindowSize),
                          !.divs = @ \cup {<<"denom", f.currentWindowSize>>}])
  ELSE IF f.pc = "phase3" /\ ~blockCond(f)
    THEN Settle([f EXCEPT !.pc = "phase3rest"])
  ELSE IF f.pc = "phase3rest" /\ ~singleCond(f)
    THEN Settle([f EXCEPT !.pc = "phase4", !.i = 0])
  ELSE IF f.pc = "phase4" /\ ~phase4Cond(f)
    THEN [f EXCEPT !.pc = "done"]
  ELSE f

\* A variant of phase 1 that forgets currentWindowSize++.
phase1BodyUncounted(f) ==
  [f EXCEPT !.sum = FAdd(f.sum, Load(f, f.ri)),
            !.ri = f.ri + f.stride,
            !.i = f.i + 1,
            !.reads = @ \cup {f.ri}]

\* Phase 1: initial accumulation.
phase1Body(f) ==
  [f EXCEPT !.sum = FAdd(f.sum, Load(f, f.ri)),
            !.currentWindowSize = FAdd(f.currentWindowSize, One),
            !.ri = f.ri + f.stride,
            !.i = f.i + 1,
            !.reads = @ \cup {f.ri}]

\* Phase 2: initial writes with small window.
phase2Body(f) ==
  LET s == FAdd(f.sum, Load(f, f.ri))
      w == FAdd(f.currentWindowSize, One)
  IN  [f EXCEPT !.sum = s,
                !.currentWindowSize = w,
                !.outVec = Store(f, f.oi, FDiv(s, w)),
                !.ri = f.ri + f.stride,
                !.oi = f.oi + f.stride,
                !.i = f.i + 1,
                !.reads = @ \cup {f.ri},
                !.writes = Append(@, Written(f.oi, "phase2", f.li, f.ri + f.stride, s, w)),
                !.divs = @ \cup {<<"phase2", w>>}]

\* A variant in which every lane starts from the sum before the block.
blockBufFromSum(f, k) ==
  FSub(FAdd(f.sum, Load(f, f.ri + f.stride * k)), Load(f, f.li + f.stride * k))

\* buf[k] of the unrolled block: buf[k] = buf[k-1] + invec[ri+stride*k] - invec[li+stride*k].
RECURSIVE blockBuf(_, _)
blockBuf(f, k) ==
  FSub(FAdd(IF k = 0 THEN f.sum ELSE blockBuf(f, k - 1),
            Load(f, f.ri + f.stride * k)),
       Load(f, f.li + f.stride * k))

\* outVec after outVec[oi+stride*j] = buf[j] * denom for j = 0..k.
RECURSIVE blockStores(_, _)
blockStores(f, k) ==
  LET g == IF k = 0 THEN f ELSE [f EXCEPT !.outVec = blockStores(f, k - 1)]
  IN  Store(g, f.oi + f.stride * k, FMul(blockBuf(f, k), f.denom))

\* A variant: the cursors advanced by 8 cells whatever the stride.
blockAdvanceUnitStride(f) == Unroll

\* The number of array cells the cursors move per block.
blockAdvance(f) == f.stride * Unroll

\* Phase 3, one block of 8 steps.
blockBody(f) ==
  [f EXCEPT !.outVec = blockStores(f, Unroll - 1),
            !.li = f.li + blockAdvance(f),
            !.ri = f.ri + blockAdvance(f),
            !.oi = f.oi + blockAdvance(f),
            !.sum = blockBuf(f, Unroll - 1),
            !.i = f.i + Unroll,
            !.reads = @ \cup {f.ri + f.stride * k : k \in 0..(Unroll - 1)}
                        \cup {f.li + f.stride * k : k \in 0..(Unroll - 1)},
            !.writes = @ \o [k \in 1..Unroll |->
                             Written(f.oi + f.stride * (k - 1), "block",
                                     f.li + f.stride * k, f.ri + f.stride * k,
                                     blockBuf(f, k - 1), f.currentWindowSize)],
            !.blocks = @ + 1]

\* Phase 3, one single step.
singleBody(f) ==
  LET s == FSub(FAdd(f.sum, Load(f, f.ri)), Load(f, f.li))
  IN  [f EXCEPT !.sum = s,
                !.outVec = Store(f, f.oi, FDiv(s, f.currentWindowSize)),
                !.li = f.li + f.stride,
                !.ri = f.ri + f.stride,
                !.oi = f.oi + f.stride,
                !.i = f.i + 1,
                !.reads = @ \cup {f.ri, f.li},
                !.writes = Append(@, Written(f.oi, "single", f.li + f.stride,
                                             f.ri + f.stride, s, f.currentWindowSize)),
                !.divs = @ \cup {<<"phase3", f.currentWindowSize>>},
                !.singles = @ + 1]

\* Phase 4: final writes with small window.
phase4Body(f) ==
  LET s == FSub(f.sum, Load(f, f.li))
      w == FSub(f.currentWindowSize, One)
  IN  [f EXCEPT !.sum = s,
                !.currentWindowSize = w,
                !.outVec = Store(f, f.oi, FDiv(s, w)),
                !.li = f.li + f.stride,
                !.oi = f.oi + f.stride,
                !.i = f.i + 1,
                !.reads = @ \cup {f.li},
                !.writes = Append(@, Written(f.oi, "phase4", f.li + f.stride, f.ri, s, w)),
                !.divs = @ \cup {<<"phase4", w>>}]

\* One loop iteration of the activation, whichever loop it is in.
box1DStep(f) ==
  Settle(CASE f.pc = "phase1" -> phase1Body(f)
           [] f.pc = "phase2" -> phase2Body(f)
           [] f.pc = "phase3" -> blockBody(f)
           [] f.pc = "phase3rest" -> singleBody(f)
           [] f.pc = "phase4" -> phase4Body(f)
           [] OTHER -> f)

\* The activation run to its return.
RECURSIVE box1DRun(_)
box1DRun(f) == IF f.pc = "done" THEN f ELSE box1DRun(box1DStep(f))

\* box1DFloatC(invec, outVec, vectorLength, stride, fullWindowSize): the output array on return.
box1DFloatC(invec, inBase, outVec, outBase, vectorLength, stride, fullWindowSize) ==
  box1DRun(Settle(box1DEntry(invec, inBase, outVec, outBase,
                             vectorLength, stride, fullWindowSize))).outVec

(***************************************************************************)
(* A direct call of box1DFloatC on a strided sequence.                     *)
(***************************************************************************)
\* The array holding the logical sequence x (indexed 0..L-1) at the given stride.
Strided(x, L, stride) ==
  [n \in 0..((L - 1) * stride) |-> IF n % stride = 0 THEN x[n \div stride] ELSE Gap]

\* The logical sequences of length L: a background level with one impulse on it.
Impulses(L, levels, amps) ==
  {[k \in 0..(L - 1) |-> FromInt(bg + (IF k = p THEN amp ELSE 0))] :
     bg \in levels, p \in 0..(L - 1), amp \in amps}

NoCall == [pc |-> "none"]

\* A direct call of box1DFloatC on the sequence x with fresh output cells.
Call1D(L, W, stride, x) ==
  /\ entry = "box1D"
  /\ fr = Settle(box1DEntry(Strided(x, L, stride), 0,
                            [n \in 0..((L - 1) * stride) |-> Stale], 0,
                            L, stride, W))
  /\ jz = NoCall

\* Direct calls with 1 <= W <= length on small integer samples: every float
\* sum of them is exact.
Init ==
  \E L \in 1..MaxLen : \E W \in 1..L : \E stride \in {1, MaxStride} :
    \E x \in Impulses(L, 0..MaxLevel, {0, MaxAmp}) : Call1D(L, W, stride, x)

\* A sample so large that adding a small one to it rounds.
BigSample == 2^24

\* Direct calls on samples of mixed magnitude.
InitWide ==
  \E L \in 1..MaxLen : \E W \in 1..L : \E stride \in {1, MaxStride} :
    \E x \in Impulses(L, 0..MaxLevel, {0, BigSample}) : Call1D(L, W, stride, x)

Phase1 ==
  /\ entry = "box1D" /\ fr.pc = "phase1"
  /\ fr' = Settle(phase1Body(fr))
  /\ UNCHANGED <<entry, jz>>

Phase2 ==
  /\ entry = "box1D" /\ fr.pc = "phase2"
  /\ fr' = Settle(phase2Body(fr))
  /\ UNCHANGED <<entry, jz>>

Phase3Block ==
  /\ entry = "box1D" /\ fr.pc = "phase3"
  /\ fr' = Settle(blockBody(fr))
  /\ UNCHANGED <<entry, jz>>

Phase3Single ==
  /\ entry = "box1D" /\ fr.pc = "phase3rest"
  /\ fr' = Settle(singleBody(fr))
  /\ UNCHANGED <<entry, jz>>

Phase4 ==
  /\ entry = "box1D" /\ fr.pc = "phase4"
  /\ fr' = Settle(phase4Body(fr))
  /\ UNCHANGED <<entry, jz>>

Next1D == Phase1 \/ Phase2 \/ Phase3Block \/ Phase3Single \/ Phase4

(***************************************************************************)
(* The 2D passes and jaroszFilterFloat.  One action is one call of         *)
(* box1DFloatC, run to its return.                                         *)
(***************************************************************************)
\* The arguments boxAlongRowsFloatC passes for row i, and boxAlongColsFloatC
\* for column j: &input[off], &output[off], length, stride, window.
rowArgs(i, numCols, windowSize) ==
  [off |-> i * numCols, length |-> numCols, stride |-> 1, window |-> windowSize]
\* A variant: the column walked with stride 1.
colArgsUnitStride(j, numRows, numCols, windowSize) ==
  [off |-> j, length |-> numRows, stride |-> 1, window |-> windowSize]
colArgs(j, numRows, numCols, windowSize) ==
  [off |-> j, length |-> numRows, stride |-> numCols, window |-> windowSize]

\* The call of box1DFloatC with those arguments: the output array after it.
callWith(input, output, a) ==
  box1DFloatC(input, a.off, output, a.off, a.length, a.stride, a.window)

\* The call in the body of boxAlongRowsFloatC's loop, for row i.
rowCall(input, output, i, numCols, windowSize) ==
  callWith(input, output, rowArgs(i, numCols, windowSize))

\* The call in the body of boxAlongColsFloatC's loop, for column j.
colCall(input, output, j, numRows, numCols, windowSize) ==
  callWith(input, output, colArgs(j, numRows, numCols, windowSize))

\* The two calls jaroszFilterFloat makes per repetition, each for loop index j.k.
jaroszRowCall(j) ==
  rowCall(j.buffer1, j.buffer2, j.k, j.numCols, j.windowSizeAlongRows)
\* A variant: the column pass given the window of the row pass.
jaroszColCallRowsWindow(j) ==
  colCall(j.buffer2, j.buffer1, j.k, j.numRows, j.numCols, j.windowSizeAlongRows)
jaroszColCall(j) ==
  colCall(j.buffer2, j.buffer1, j.k, j.numRows, j.numCols, j.windowSizeAlongCols)

\* Control of jaroszFilterFloat between calls: the test of its loop, then the
\* loop of boxAlongRowsFloatC, then the loop of boxAlongColsFloatC.
RECURSIVE jaroszSettle(_)
jaroszSettle(j) ==
  IF j.pc = "loop"
    THEN (IF j.i < j.nreps
            THEN jaroszSettle([j EXCEPT !.pc = "rows", !.k = 0])
            ELSE [j EXCEPT !.pc = "done"])
  ELSE IF j.pc = "rows" /\ ~(j.k < j.numRows)
    THEN jaroszSettle([j EXCEPT !.pc = "cols", !.k = 0])
  ELSE IF j.pc = "cols" /\ ~(j.k < j.numCols)
    THEN jaroszSettle([j EXCEPT !.pc = "loop", !.i = j.i + 1])
  ELSE j

\* The state on entry to jaroszFilterFloat.  calls is history: every call of
\* box1DFloatC made so far; initial is buffer1 as the caller passed it.
jaroszEntry(buffer1, buffer2, numRows, numCols, windowSizeAlongRows, windowSizeAlongCols, nreps) ==
  [buffer1 |-> buffer1, buffer2 |-> buffer2, numRows |-> numRows,
   numCols |-> numCols, windowSizeAlongRows |-> windowSizeAlongRows,
   windowSizeAlongCols |-> windowSizeAlongCols, nreps |-> nreps,
   i |-> 0, k |-> 0, pc |-> "loop", calls |-> <<>>, initial |-> buffer1]

\* The history entry of one call.
Called(fn, j, args) ==
  [fn |-> fn, rep |-> j.i, index |-> j.k, args |-> args]

NoFrame == [pc |-> "none"]

\* A matrix of numRows x numCols cells, row-major, from a function of <<row, column>>.
Matrix(numRows, numCols, cell) ==
  [n \in 0..(numRows * numCols - 1) |-> cell[n \div numCols, n % numCols]]

\* The matrices with one impulse on a background level.
ImpulseMatrices(numRows, numCols, levels, amps) ==
  {Matrix(numRows, numCols,
          [r \in 0..(numRows - 1), c \in 0..(numCols - 1) |->
             FromInt(bg + (IF r * numCols + c = p THEN amp ELSE 0))]) :
     bg \in levels, p \in 0..(numRows * numCols - 1), amp \in amps}

Call2D(numRows, numCols, wRows, wCols, nreps, A) ==
  /\ entry = "jarosz"
  /\ jz = jaroszSettle(jaroszEntry(A, [n \in DOMAIN A |-> Stale], numRows, numCols,
                                   wRows, wCols, nreps))
  /\ fr = NoFrame

\* Calls of jaroszFilterFloat with distinct buffers and windows no longer
\* than the rows and columns they run along.
Init2D ==
  \E numRows \in 1..MaxDim : \E numCols \in 1..MaxDim :
    \E wRows \in 1..numCols : \E wCols \in 1..numRows : \E nreps \in 0..MaxReps :
      \E A \in ImpulseMatrices(numRows, numCols, 0..MaxLevel, {0, MaxAmp}) :
        Call2D(numRows, numCols, wRows, wCols, nreps, A)

\* boxAlongRowsFloatC(buffer1, buffer2, ...): one iteration of its loop.
RowsStep ==
  /\ entry = "jarosz" /\ jz.pc = "rows"
  /\ jz' = jaroszSettle(
             [jz EXCEPT !.buffer2 = jaroszRowCall(jz),
                        !.k = jz.k + 1,
                        !.calls = Append(@, Called("rows", jz,
                                    rowArgs(jz.k, jz.numCols, jz.windowSizeAlongRows)))])
  /\ UNCHANGED <<entry, fr>>

\* boxAlongColsFloatC(buffer2, buffer1, ...): one iteration of its loop.
ColsStep ==
  /\ entry = "jarosz" /\ jz.pc = "cols"
  /\ jz' = jaroszSettle(
             [jz EXCEPT !.buffer1 = jaroszColCall(jz),
                        !.k = jz.k + 1,
                        !.calls = Append(@, Called("cols", jz,
                                    colArgs(jz.k, jz.numRows, jz.numCols,
                                            jz.windowSizeAlongCols)))])
  /\ UNCHANGED <<entry, fr>>

Next2D == RowsStep \/ ColsStep

Spec2D == Init2D /\ [][Next2D]_vars

(***************************************************************************)
(* Constant inputs, for both entry points.                                 *)
(***************************************************************************)
\* A constant whose multiples stop being exact floats at 3 * BigConst.
BigConst == 2^24 + 2

InitConst ==
  \/ \E L \in 1..MaxConstLen : \E W \in 1..L : \E stride \in {1, MaxStride} :
       \E c \in (1..MaxConst) \cup {BigConst} :
         Call1D(L, W, stride, [k \in 0..(L - 1) |-> FromInt(c)])
  \/ \E numRows \in 1..MaxConstDim : \E numCols \in 1..MaxConstDim :
       \E wRows \in 1..numCols : \E wCols \in 1..numRows : \E nreps \in 0..MaxReps :
         \E c \in 1..MaxConst :
           Call2D(numRows, numCols, wRows, wCols, nreps,
                  Matrix(numRows, numCols,
                         [r \in 0..(numRows - 1), k \in 0..(numCols - 1) |-> FromInt(c)]))

Next == Next1D \/ Next2D

SpecConst == InitConst /\ [][Next]_vars

Spec == Init /\ [][Next1D]_vars

SpecWide == InitWide /\ [][Next1D]_vars

(***************************************************************************)
(* What the claims speak of.                                               *)
(***************************************************************************)
\* The integer a float holds (the samples of the 1D specifications are integers).
IntOf(x) == x.m * 2^(x.e)

\* The sample at logical position p of the activation's input sequence.
Sample(f, p) == f.invec[f.inBase + p * f.stride]

\* The exact sum of the samples at logical positions lo..hi.
RECURSIVE WindowSum(_, _, _)
WindowSum(f, lo, hi) ==
  IF lo > hi THEN 0 ELSE IntOf(Sample(f, lo)) + WindowSum(f, lo + 1, hi)

Max(a, b) == IF a >= b THEN a ELSE b
Min(a, b) == IF a <= b THEN a ELSE b

\* The float mean of the samples at the positions of [lo, hi] that lie in [0, length).
WindowMean(f, lo, hi) ==
  LET a == Max(lo, 0)
      b == Min(hi, f.vectorLength - 1)
  IN  FDiv(FromInt(WindowSum(f, a, b)), FromInt(b - a + 1))

\* The float next above a positive finite float, and two floats at most one
\* unit in the last place apart.
NextUp(x) == LET u == Up24(x.m, x.e) IN Norm(u[1] + 1, u[2])
Close(x, y) ==
  \/ x = y
  \/ /\ x.c = "fin" /\ y.c = "fin" /\ x.m > 0 /\ y.m > 0
     /\ (y = NextUp(x) \/ x = NextUp(y))

\* The output cell a history entry wrote, and its logical position.
Cell(f, w) == f.outVec[f.outBase + w.idx]
Pos(f, w) == w.idx \div f.stride

\* The logical positions of the sequence.
Positions(f) == 0..(f.vectorLength - 1)

Done1D == entry = "box1D" /\ fr.pc = "done"

C8_DivisorPositive ==
  entry = "box1D" => \A d \in fr.divs : FPositive(d[2])

\* All four divisions have been executed in one call.
C8_Witness ==
  /\ entry = "box1D"
  /\ {d[1] : d \in fr.divs} = {"phase2", "denom", "phase3", "phase4"}

\* C9 as stated: the single-step loop of phase 3 runs fewer than 8 times.
C9_RemainderBelow8 ==
  entry = "box1D" => fr.singles < Unroll

\* C10: the writes go to the positions 0, 1, ..., length-1 in that order,
\* each once, at array index position * stride, and nowhere else; every read,
\* the reads ri+7*stride and li+7*stride of a block included, is at the
\* index of a position of the sequence.
C10_Accesses ==
  entry = "box1D" =>
    /\ \A k \in 1..Len(fr.writes) : fr.writes[k].idx = (k - 1) * fr.stride
    /\ Len(fr.writes) <= fr.vectorLength
    /\ fr.pc = "done" => Len(fr.writes) = fr.vectorLength
    /\ fr.reads \subseteq {p * fr.stride : p \in Positions(fr)}
    /\ \A n \in DOMAIN fr.outVec :
         (\A k \in 1..Len(fr.writes) : fr.writes[k].idx # n) => fr.outVec[n] = Stale

\* A strided call has returned after running the unrolled block.
C10_Witness ==
  Done1D /\ fr.stride > 1 /\ fr.blocks > 0 /\ fr.fullWindowSize > 1

\* The activation as it stood when phase 3 began: the call re-run through
\* phases 1 and 2 from the same arguments.
RECURSIVE runToPhase3(_)
runToPhase3(f) ==
  IF f.pc \in {"phase1", "phase2"} THEN runToPhase3(box1DStep(f)) ELSE f

phase3Entry(f) ==
  runToPhase3(Settle(box1DEntry(f.invec, f.inBase,
                                [n \in DOMAIN f.outVec |-> Stale], f.outBase,
                                f.vectorLength, f.stride, f.fullWindowSize)))

\* All length - W steady-state steps done with the single-step form only.
RECURSIVE singleOnly(_)
singleOnly(g) == IF singleCond(g) THEN singleOnly(singleBody(g)) ELSE g

SingleStepReference(f) ==
  singleOnly([phase3Entry(f) EXCEPT !.pc = "phase3rest", !.i = 0])

\* Phase 3 is over and phase 4 has not yet run an iteration.
AfterPhase3(f) ==
  \/ f.pc = "phase4" /\ f.i = 0
  \/ f.pc = "done" /\ phase4Nreps(f.fullWindowSize) = 0

IsPowerOf2(n) == \E k \in 0..n : n = 2^k

\* C6 as stated: when phase 3 ends, the outputs, the running sum and the
\* three cursors are those of running every steady-state step with the
\* single-step form.
C6_SameAsSingleSteps ==
  entry = "box1D" /\ AfterPhase3(fr) =>
    LET r == SingleStepReference(fr)
    IN  /\ fr.outVec = r.outVec
        /\ fr.sum = r.sum
        /\ fr.li = r.li /\ fr.ri = r.ri /\ fr.oi = r.oi

\* C6 amended: when phase 3 ends, the running sum and the three cursors are
\* those of the single-step form, the blocks and single steps together made
\* length - W steps, and every output is within one unit in the last place of
\* the single-step output: identical at the positions the single steps wrote
\* and, when W is a power of two, everywhere (the block multiplies by the
\* rounded reciprocal 1/W where the single step divides by W).
C6_SameUpToRounding ==
  entry = "box1D" /\ AfterPhase3(fr) =>
    LET r == SingleStepReference(fr)
    IN  /\ fr.sum = r.sum
        /\ fr.li = r.li /\ fr.ri = r.ri /\ fr.oi = r.oi
        /\ fr.blocks * Unroll + fr.singles
             = phase3Nreps(fr.vectorLength, fr.fullWindowSize)
        /\ \A n \in DOMAIN fr.outVec : Close(fr.outVec[n], r.outVec[n])
        /\ \A k \in 1..Len(fr.writes) :
             fr.writes[k].site # "block" => Cell(fr, fr.writes[k]) = Cell(r, fr.writes[k])
        /\ IsPowerOf2(fr.fullWindowSize) => fr.outVec = r.outVec

\* Phase 3 has ended after a block and single steps, with block outputs that
\* differ from the single-step outputs in the last place.
C6_Witness ==
  /\ entry = "box1D" /\ AfterPhase3(fr) /\ fr.blocks > 0 /\ fr.singles > 0
  /\ fr.outVec # SingleStepReference(fr).outVec

\* Every sum invec[j] + invec[j+1] of neighbouring samples before position p
\* is exact in float arithmetic.
ExactNeighbours(f, p) ==
  \A j \in 0..(p - 1) :
    LET t == FAdd(Sample(f, j), Sample(f, j + 1))
    IN  t.e >= 0 /\ IntOf(t) = IntOf(Sample(f, j)) + IntOf(Sample(f, j + 1))

\* C3 as stated: with fullWindowSize = 1 every position written holds its
\* input sample, and on return every position is written.
C3_IdentityExactly ==
  entry = "box1D" /\ fr.fullWindowSize = 1 =>
    /\ \A k \in 1..Len(fr.writes) :
         Cell(fr, fr.writes[k]) = Sample(fr, Pos(fr, fr.writes[k]))
    /\ fr.pc = "done" => Len(fr.writes) = fr.vectorLength

\* C3 amended: with fullWindowSize = 1, for any length and stride, the
\* divisor is 1 at every written position and all positions are written;
\* position 0 holds its input sample, and position p holds its input sample
\* when the float sums of neighbouring samples up to p are exact (the
\* output is the running sum (sum + invec[p]) - invec[p-1], which rounds).
C3_IdentityWhenExact ==
  entry = "box1D" /\ fr.fullWindowSize = 1 =>
    /\ \A k \in 1..Len(fr.writes) :
         LET w == fr.writes[k]
         IN  /\ w.div = One
             /\ w.idx = (k - 1) * fr.stride
             /\ Cell(fr, w) = w.sum
             /\ ExactNeighbours(fr, k - 1) => Cell(fr, w) = Sample(fr, k - 1)
    /\ fr.pc = "done" => Len(fr.writes) = fr.vectorLength

\* A strided window-1 call has returned through the unrolled block on an
\* input that mixes a large sample with small ones exactly.
C3_Witness ==
  /\ Done1D /\ fr.fullWindowSize = 1 /\ fr.stride > 1 /\ fr.blocks > 0
  /\ \E p \in Positions(fr) : Sample(fr, p) = FromInt(BigSample)
  /\ \E p \in Positions(fr) : Sample(fr, p) = Zero
  /\ ExactNeighbours(fr, fr.vectorLength - 1)

(***************************************************************************)
(* The 2D claims.                                                          *)
(***************************************************************************)
\* The 1D filter applied to a sequence x of its own (indexed 0..L-1, stride 1).
Filter1D(x, L, w) == box1DFloatC(x, 0, [n \in 0..(L - 1) |-> Stale], 0, L, 1, w)

RowOf(M, r, numCols) == [c \in 0..(numCols - 1) |-> M[r * numCols + c]]
ColOf(M, c, numRows, numCols) == [r \in 0..(numRows - 1) |-> M[r * numCols + c]]

\* The function f, tabulated: comparing a function makes TLC enumerate it
\* once, where applying it would evaluate its defining expression each time.
Tabulated(f) == IF f = f THEN f ELSE f

\* A whole pass as a function of the matrix: every row, or every column,
\* filtered by itself.
RowPass(M, numRows, numCols, w) ==
  LET row == Tabulated([r \in 0..(numRows - 1) |->
                          Filter1D(RowOf(M, r, numCols), numCols, w)])
  IN  Tabulated(Matrix(numRows, numCols,
                       [r \in 0..(numRows - 1), c \in 0..(numCols - 1) |-> row[r][c]]))
ColPass(M, numRows, numCols, w) ==
  LET col == Tabulated([c \in 0..(numCols - 1) |->
                          Filter1D(ColOf(M, c, numRows, numCols), numRows, w)])
  IN  Tabulated(Matrix(numRows, numCols,
                       [r \in 0..(numRows - 1), c \in 0..(numCols - 1) |-> col[c][r]]))

\* n repetitions of: the column pass after the row pass.
RECURSIVE Smoothed(_, _, _)
Smoothed(M, j, n) ==
  IF n = 0 THEN M
  ELSE ColPass(RowPass(Smoothed(M, j, n - 1), j.numRows, j.numCols,
                       j.windowSizeAlongRows),
               j.numRows, j.numCols, j.windowSizeAlongCols)

Done2D == entry = "jarosz" /\ jz.pc = "done"

\* C5: the calls made are, per repetition, the rows 0..numRows-1 with
\* windowSizeAlongRows and then the columns 0..numCols-1 with
\* windowSizeAlongCols; buffer1 holds i repetitions of (column pass after row
\* pass) of its initial contents whenever repetition i begins, buffer2 holds
\* the row pass of that when the column pass begins, and on return exactly
\* nreps repetitions were made and buffer1 is their result (its initial
\* contents when nreps = 0).
C5_Repetitions ==
  entry = "jarosz" =>
    /\ \A n \in 1..Len(jz.calls) :
         LET call == jz.calls[n]
             m == (n - 1) % (jz.numRows + jz.numCols)
         IN  /\ call.rep = (n - 1) \div (jz.numRows + jz.numCols)
             /\ call.rep < jz.nreps
             /\ IF m < jz.numRows
                  THEN call.fn = "rows" /\ call.index = m
                       /\ call.args.window = jz.windowSizeAlongRows
                  ELSE call.fn = "cols" /\ call.index = m - jz.numRows
                       /\ call.args.window = jz.windowSizeAlongCols
    /\ jz.pc = "rows" /\ jz.k = 0 => jz.buffer1 = Smoothed(jz.initial, jz, jz.i)
    /\ jz.pc = "cols" /\ jz.k = 0 =>
         jz.buffer2 = RowPass(Smoothed(jz.initial, jz, jz.i), jz.numRows,
                              jz.numCols, jz.windowSizeAlongRows)
    /\ jz.pc = "done" =>
         /\ jz.i = jz.nreps
         /\ Len(jz.calls) = jz.nreps * (jz.numRows + jz.numCols)
         /\ jz.buffer1 = Smoothed(jz.initial, jz, jz.nreps)
         /\ jz.nreps = 0 => jz.buffer1 = jz.initial

\* Two repetitions with different windows have returned on a matrix that is
\* not constant.
C5_Witness ==
  /\ Done2D /\ jz.nreps = 2 /\ jz.numRows > 1 /\ jz.numCols > 1
  /\ jz.windowSizeAlongRows # jz.windowSizeAlongCols
  /\ jz.buffer1 # jz.initial
  /\ \E n \in DOMAIN jz.initial : jz.initial[n] # jz.initial[0]

\* What one call for row r must do to the pair (input, output) = (buffer1, buffer2).
RowFrame(r) ==
  /\ jz'.buffer1 = jz.buffer1
  /\ \A n \in DOMAIN jz.buffer2 :
       n \div jz.numCols # r => jz'.buffer2[n] = jz.buffer2[n]
  /\ RowOf(jz'.buffer2, r, jz.numCols)
       = Filter1D(RowOf(jz.buffer1, r, jz.numCols), jz.numCols, jz.windowSizeAlongRows)
  /\ jz'.calls[Len(jz'.calls)].args
       = [off |-> r * jz.numCols, length |-> jz.numCols, stride |-> 1,
          window |-> jz.windowSizeAlongRows]

\* What one call for column c must do to the pair (input, output) = (buffer2, buffer1).
ColFrame(c) ==
  /\ jz'.buffer2 = jz.buffer2
  /\ \A n \in DOMAIN jz.buffer1 :
       n % jz.numCols # c => jz'.buffer1[n] = jz.buffer1[n]
  /\ ColOf(jz'.buffer1, c, jz.numRows, jz.numCols)
       = Filter1D(ColOf(jz.buffer2, c, jz.numRows, jz.numCols), jz.numRows,
                  jz.windowSizeAlongCols)
  /\ jz'.calls[Len(jz'.calls)].args
       = [off |-> c, length |-> jz.numRows, stride |-> jz.numCols,
          window |-> jz.windowSizeAlongCols]

\* C7: the row pass calls the 1D filter once per row, for the rows in order,
\* with stride 1, length numCols and offset row * numCols; the column pass
\* once per column with stride numCols, length numRows and offset the column
\* index.  Each call leaves the input buffer as it was, changes no output
\* cell outside its own row (column), and leaves in that row (column) the
\* filter of the same row (column) of the input alone.
C7_RowColumnFrame ==
  [][entry = "jarosz" =>
       /\ jz.pc = "rows" => Len(jz'.calls) = Len(jz.calls) + 1 /\ RowFrame(jz.k)
       /\ jz.pc = "cols" => Len(jz'.calls) = Len(jz.calls) + 1 /\ ColFrame(jz.k)
       /\ jz.pc = "rows" /\ jz'.pc # "rows" => jz.k = jz.numRows - 1
       /\ jz.pc = "cols" /\ jz'.pc # "cols" => jz.k = jz.numCols - 1
       /\ jz.pc = jz'.pc => jz'.k = jz.k + 1]_vars

\* A call for a column other than the first has just been made on a matrix
\* with several rows and columns that is not constant.
C7_Witness ==
  /\ entry = "jarosz" /\ jz.numRows > 1 /\ jz.numCols > 1
  /\ Len(jz.calls) > 0
  /\ jz.calls[Len(jz.calls)].fn = "cols" /\ jz.calls[Len(jz.calls)].index > 0
  /\ \E n \in DOMAIN jz.initial : jz.initial[n] # jz.initial[0]
  /\ jz.buffer1 # jz.initial

(***************************************************************************)
(* Constant inputs.                                                        *)
(***************************************************************************)
\* The multiples c, 2c, ..., n*c of the integer float c are exact floats.
ExactMultiples(c, n) ==
  \A k \in 1..n : LET t == FromInt(k * IntOf(c)) IN t.e >= 0 /\ IntOf(t) = k * IntOf(c)

\* Every sample of the 1D input holds v.
ConstantInput(f, v) == \A p \in Positions(f) : Sample(f, p) = v

\* C4 as stated: on a constant input every output equals the constant, for
\* every W in [1, length]; and jaroszFilterFloat on a constant matrix leaves
\* the constant in every cell of buffer1.
C4_ConstantExactly ==
  /\ entry = "box1D" /\ ConstantInput(fr, Sample(fr, 0)) =>
       \A k \in 1..Len(fr.writes) : Cell(fr, fr.writes[k]) = Sample(fr, 0)
  /\ Done2D /\ (\A n \in DOMAIN jz.initial : jz.initial[n] = jz.initial[0]) =>
       \A n \in DOMAIN jz.buffer1 : jz.buffer1[n] = jz.initial[0]

\* C4 amended: on a constant input c whose multiples up to (W+1)*c are exact
\* floats, every output written by a division (phases 2 and 4, the single
\* steps) equals c, and every output written by the unrolled block is within
\* one unit in the last place of c, and equals c when W is a power of two;
\* jaroszFilterFloat on such a constant matrix whose rows and columns are too
\* short for the unrolled block (numCols - windowSizeAlongRows <= 8 and
\* numRows - windowSizeAlongCols <= 8, as in the 4x4 example) leaves c in
\* every cell of buffer1.
C4_ConstantUpToRounding ==
  /\ entry = "box1D" /\ ConstantInput(fr, Sample(fr, 0))
       /\ ExactMultiples(Sample(fr, 0), fr.fullWindowSize + 1) =>
       \A k \in 1..Len(fr.writes) :
         LET w == fr.writes[k]
         IN  IF w.site = "block"
               THEN /\ Close(Cell(fr, w), Sample(fr, 0))
                    /\ IsPowerOf2(fr.fullWindowSize) => Cell(fr, w) = Sample(fr, 0)
               ELSE Cell(fr, w) = Sample(fr, 0)
  /\ Done2D /\ (\A n \in DOMAIN jz.initial : jz.initial[n] = jz.initial[0])
       /\ ExactMultiples(jz.initial[0],
                         Max(jz.windowSizeAlongRows, jz.windowSizeAlongCols) + 1)
       /\ jz.numCols - jz.windowSizeAlongRows <= Unroll
       /\ jz.numRows - jz.windowSizeAlongCols <= Unroll =>
       \A n \in DOMAIN jz.buffer1 : jz.buffer1[n] = jz.initial[0]

\* A constant sequence with exact multiples has run to its return through
\* the unrolled block with a window that is no power of two, and a block
\* output is not the constant.
C4_Witness ==
  /\ Done1D /\ ConstantInput(fr, Sample(fr, 0))
  /\ ExactMultiples(Sample(fr, 0), fr.fullWindowSize + 1)
  /\ fr.blocks > 0 /\ fr.singles > 0 /\ ~IsPowerOf2(fr.fullWindowSize)
  /\ \E k \in 1..Len(fr.writes) :
       fr.writes[k].site = "block" /\ Cell(fr, fr.writes[k]) # Sample(fr, 0)

====
